---- MODULE Spec2Model ----
(***************************************************************************)
(* The diary buddy session (src/src/App.tsx), its service layer            *)
(* (src/src/services/diaryService.ts) and the record store behind the      *)
(* HTTP API (src/server.ts).                                               *)
(*                                                                         *)
(* A text is a sequence of segments (a segment is a character or a run of  *)
(* characters), so that trim(), emptiness and joins are computed.          *)
(***************************************************************************)
EXTENDS Integers, Sequences, FiniteSets, TLC

\* ------------------------------------------------------------------ bounds
\* requests that can create an entry in one behaviour: submissions accepted by
\* handleSend, and POST /api/entries requests of other clients
MaxRuns == 2
\* rows already in the entries table when the page is opened
MaxInitEntries == 2
\* seconds the store's clock may advance during one behaviour
MaxTicks == 1
\* of these, the POST /api/entries requests of other clients
MaxApiPosts == 1

\* ------------------------------------------------------------- JS values
\* a field that is missing from an object reads as undefined
Undefined == <<"undefined">>
\* JSON null
JsNull == <<"null">>
\* truthiness of a value that is a string or undefined/null
Truthy(v) == v # Undefined /\ v # JsNull /\ v # <<>>

RECURSIVE TrimStart(_)
TrimStart(s) == IF s # <<>> /\ Head(s) = " " THEN TrimStart(Tail(s)) ELSE s
RECURSIVE TrimEnd(_)
TrimEnd(s) ==
  IF s # <<>> /\ s[Len(s)] = " " THEN TrimEnd(SubSeq(s, 1, Len(s) - 1)) ELSE s
\* String.prototype.trim
Trim(s) == TrimEnd(TrimStart(s))

RECURSIVE Join(_, _)
\* Array.prototype.join on an array of texts
Join(parts, sep) ==
  IF parts = <<>> THEN <<>>
  ELSE IF Len(parts) = 1 THEN parts[1]
  ELSE parts[1] \o sep \o Join(Tail(parts), sep)

\* Array.prototype.slice(0, n)
Slice0(s, n) == SubSeq(s, 1, IF Len(s) < n THEN Len(s) ELSE n)

RemoveAt(s, i) == SubSeq(s, 1, i - 1) \o SubSeq(s, i + 1, Len(s))

\* ------------------------------------------------------------ fixed texts
Greeting == <<"Hey! I'm your student diary buddy.">>
FallbackText == <<"Oops, something went wrong. Can you try again?">>

\* what the user can have in the textarea
InputTexts == {<<>>, <<" ">>, <<" ", "a">>}

\* ---------------------------------------------------------- conversation
NoData == [kind |-> "undefined", summary |-> Undefined, learning |-> Undefined]
NullData == [kind |-> "null", summary |-> Undefined, learning |-> Undefined]
UserTurn(text) == [role |-> "user", content |-> text, data |-> NoData]
GreetingTurn == [role |-> "assistant", content |-> Greeting, data |-> NoData]
FallbackTurn == [role |-> "assistant", content |-> FallbackText, data |-> NoData]

\* data: result.summary ? { summary, learning } : null
AttachedData(result) ==
  IF Truthy(result.summary)
  THEN [kind |-> "record", summary |-> result.summary, learning |-> result.learning]
  ELSE NullData

AssistantTurn(result) ==
  [role |-> "assistant", content |-> result.chatResponse, data |-> AttachedData(result)]

\* ------------------------------------------------------ generation result
NoPref == [present |-> FALSE, key |-> Undefined, value |-> Undefined]
Pref(k, v) == [present |-> TRUE, key |-> k, value |-> v]

\* JSON.parse("{}")
EmptyObject ==
  [summary |-> Undefined, learning |-> Undefined, chatResponse |-> Undefined,
   updatedPreferences |-> NoPref]

\* a generation result with the given fields
Gen(summary, learning, chatResponse, updatedPreferences) ==
  [summary |-> summary, learning |-> learning, chatResponse |-> chatResponse,
   updatedPreferences |-> updatedPreferences]

\* objects the backend's JSON text can parse to: each field present or not,
\* empty or not, alone and together
GenObjects ==
  {EmptyObject,
   Gen(Undefined, Undefined, <<"C">>, NoPref),
   Gen(<<>>, <<>>, <<"C">>, Pref(<<"k">>, <<"v1">>)),
   Gen(Undefined, Undefined, <<"C">>, Pref(<<"k">>, <<"v2">>)),
   Gen(Undefined, Undefined, <<"C">>, Pref(<<>>, <<"v1">>)),
   Gen(Undefined, Undefined, <<"C">>, Pref(<<"k">>, <<>>)),
   Gen(<<"S">>, <<"L">>, <<"C">>, NoPref),
   Gen(<<"S">>, <<"L">>, <<"C">>, Pref(<<"k">>, <<"v1">>)),
   Gen(<<"S">>, <<>>, <<"C">>, NoPref),
   Gen(Undefined, <<"L">>, <<"C">>, NoPref),
   Gen(<<"S">>, <<"L">>, <<>>, NoPref),
   Gen(Undefined, Undefined, Undefined, Pref(<<"k">>, <<"v2">>))}

\* response.text of the backend: no text, text that is not JSON, or JSON text
GenResponses ==
  {[kind |-> "empty", obj |-> EmptyObject], [kind |-> "invalid", obj |-> EmptyObject]}
  \cup {[kind |-> "json", obj |-> o] : o \in GenObjects}

\* JSON.parse(response.text || "{}") ; throws on text that is not JSON
ParseThrows(resp) == resp.kind = "invalid"
ParseResponse(resp) == IF resp.kind = "empty" THEN EmptyObject ELSE resp.obj

\* --------------------------------------------------------- context builder
RenderEntry(h) == <<"Past Entry: ">> \o h.summary \o <<"\nLearning: ">> \o h.learning

\* history.slice(0, 3).map(...).join("\n\n")
HistoryString(history) ==
  LET recent == Slice0(history, 3)
  IN Join([i \in 1..Len(recent) |-> RenderEntry(recent[i])], <<"\n\n">>)

VARIABLES
  entries, preferences, input, isLoading, messages,   \* React state of App
  pipelines,      \* handleSend activations that have not returned yet
  loadData,       \* the loadData activation started on mount
  dbEntries, dbPrefs, clock,                          \* the store
  nRuns, nApiPosts,                                   \* counters for the bounds
  lastRun,        \* log: the handleSend activation that returned last
  prefLog         \* log: preference pairs reported by generation results

vars ==
  <<entries, preferences, input, isLoading, messages, pipelines, loadData,
    dbEntries, dbPrefs, clock, nRuns, nApiPosts, lastRun, prefLog>>

client == <<entries, preferences, input, isLoading, messages>>
store == <<dbEntries, dbPrefs>>
logs == <<lastRun, prefLog>>


\* ------------------------------------------------------------- the store
Range(s) == {s[i] : i \in 1..Len(s)}

\* INSERT INTO entries (content, summary, learning): id is AUTOINCREMENT,
\* created_at is CURRENT_TIMESTAMP, which has a resolution of one second
InsertEntry(rows, content, summary, learning, now) ==
  Append(rows,
    [id |-> Len(rows) + 1, content |-> content, summary |-> summary,
     learning |-> learning, created_at |-> now])

\* content TEXT NOT NULL is the only constraint of the entries table
InsertEntryFails(content) == content = JsNull

RECURSIVE OrderByCreatedAtDesc(_)
\* every row order that ORDER BY created_at DESC allows: rows with the same
\* created_at may come in any order
OrderByCreatedAtDesc(S) ==
  IF S = {} THEN {<<>>}
  ELSE LET first == {x \in S : \A y \in S : x.created_at >= y.created_at}
       IN UNION {{<<x>> \o t : t \in OrderByCreatedAtDesc(S \ {x})} : x \in first}

\* GET /api/entries
ListEntries(rows) == OrderByCreatedAtDesc(Range(rows))

\* INSERT OR IGNORE instead: the row the key already has is kept
UpsertPreferenceIgnore(rows, key, value) ==
  IF \E r \in rows : r.key = key THEN rows
  ELSE rows \cup {[key |-> key, value |-> value]}

\* INSERT OR REPLACE INTO preferences (key, value): key is the PRIMARY KEY
UpsertPreference(rows, key, value) ==
  {r \in rows : r.key # key} \cup {[key |-> key, value |-> value]}

EmptyPrefs == [k \in {} |-> <<>>]

\* GET /api/preferences: the rows reduced into one object
ListPreferences(rows) ==
  [k \in {r.key : r \in rows} |-> (CHOOSE r \in rows : r.key = k).value]

\* { ...prev, [key]: value }
SetKey(prev, key, value) ==
  [k \in DOMAIN prev \cup {key} |-> IF k = key THEN value ELSE prev[k]]

InitRow(i) ==
  [id |-> i, content |-> <<"a">>, summary |-> <<"S", ToString(i)>>,
   learning |-> <<"L", ToString(i)>>, created_at |-> i]

NoRun ==
  [n |-> 0, outcome |-> "none", cause |-> "none", userMessage |-> <<>>,
   result |-> EmptyObject, calledSavePreference |-> FALSE,
   calledSaveEntry |-> FALSE, respId |-> 0, turn |-> GreetingTurn]

Init ==
  /\ entries = <<>>
  /\ preferences = EmptyPrefs
  /\ input = <<>>
  /\ isLoading = FALSE
  /\ messages = <<>>
  /\ pipelines = <<>>
  /\ loadData =
       [pc |-> "fetching", gotEntries |-> FALSE, fetchedEntries |-> <<>>,
        gotPrefs |-> FALSE, fetchedPrefs |-> EmptyPrefs]
  /\ \E k \in 0..MaxInitEntries : dbEntries = [i \in 1..k |-> InitRow(i)]
  /\ dbPrefs = {}
  /\ clock = MaxInitEntries + 1
  /\ nRuns = 0
  /\ nApiPosts = 0
  /\ lastRun = NoRun
  /\ prefLog = <<>>

\* the store's clock reaches the next second
Tick ==
  /\ clock < MaxInitEntries + 1 + MaxTicks
  /\ clock' = clock + 1
  /\ UNCHANGED <<client, pipelines, loadData, store, nRuns, nApiPosts, logs>>

\* ---------------------------------------------------------------- loadData
\* the messages that loadData's closure holds: the state of the first render
loadDataMessages == <<>>

\* the server answers loadData's GET /api/entries
LoadGetEntries ==
  /\ loadData.pc = "fetching" /\ ~loadData.gotEntries
  /\ \E rows \in ListEntries(dbEntries) :
       loadData' = [loadData EXCEPT !.gotEntries = TRUE, !.fetchedEntries = rows]
  /\ UNCHANGED <<client, pipelines, store, clock, nRuns, nApiPosts, logs>>

\* the server answers loadData's GET /api/preferences
LoadGetPreferences ==
  /\ loadData.pc = "fetching" /\ ~loadData.gotPrefs
  /\ loadData' =
       [loadData EXCEPT !.gotPrefs = TRUE, !.fetchedPrefs = ListPreferences(dbPrefs)]
  /\ UNCHANGED <<client, pipelines, store, clock, nRuns, nApiPosts, logs>>

\* Promise.all resolves: both snapshots replace the state
LoadDataResolve ==
  /\ loadData.pc = "fetching" /\ loadData.gotEntries /\ loadData.gotPrefs
  /\ entries' = loadData.fetchedEntries
  /\ preferences' = loadData.fetchedPrefs
  /\ messages' = IF Len(loadDataMessages) = 0 THEN <<GreetingTurn>> ELSE messages
  /\ loadData' = [loadData EXCEPT !.pc = "done"]
  /\ UNCHANGED <<input, isLoading, pipelines, store, clock, nRuns, nApiPosts, logs>>

\* one of the two fetches rejects: loadData throws, nothing is set
LoadDataReject ==
  /\ loadData.pc = "fetching"
  /\ loadData' = [loadData EXCEPT !.pc = "failed"]
  /\ UNCHANGED <<client, pipelines, store, clock, nRuns, nApiPosts, logs>>


\* -------------------------------------------------------------- handleSend
\* the early return without the isLoading test
HandleSendAcceptsUnguarded(text, loading) == Trim(text) # <<>>

\* if (!input.trim() || isLoading) return;
HandleSendAccepts(text, loading) == Trim(text) # <<>> /\ ~loading

\* the activation up to its first await: generateDiary has been called with
\* the message and the preferences and entries of the current render
NewPipeline(userMessage) ==
  [n |-> nRuns + 1, pc |-> "generate", userMessage |-> userMessage,
   callPreferences |-> preferences, callHistory |-> entries,
   result |-> EmptyObject, status |-> "none", respId |-> 0,
   calledSavePreference |-> FALSE, calledSaveEntry |-> FALSE, logIx |-> 0]

\* the textarea's onChange
SetInput ==
  /\ \E text \in InputTexts : text # input /\ input' = text
  /\ UNCHANGED <<entries, preferences, isLoading, messages, pipelines, loadData,
                 store, clock, nRuns, nApiPosts, logs>>

\* Enter or the send button, accepted
HandleSend ==
  /\ nRuns + nApiPosts < MaxRuns
  /\ HandleSendAccepts(input, isLoading)
  /\ input' = <<>>
  /\ messages' = Append(messages, UserTurn(input))
  /\ isLoading' = TRUE
  /\ pipelines' = Append(pipelines, NewPipeline(input))
  /\ nRuns' = nRuns + 1
  /\ UNCHANGED <<entries, preferences, loadData, store, clock, nApiPosts, logs>>

\* Enter or the send button, refused by the early return
HandleSendRejected ==
  /\ ~HandleSendAccepts(input, isLoading)
  /\ UNCHANGED vars

\* the activation returns: what it leaves in the log
Returned(p, outcome, cause, turn) ==
  [n |-> p.n, outcome |-> outcome, cause |-> cause, userMessage |-> p.userMessage,
   result |-> p.result, calledSavePreference |-> p.calledSavePreference,
   calledSaveEntry |-> p.calledSaveEntry, respId |-> p.respId, turn |-> turn]

\* a handler without the finally block: isLoading is left as it was
FinallyMissing == isLoading' = isLoading

\* finally { setIsLoading(false) }
Finally == isLoading' = FALSE

\* the end of the try block: the assistant turn, then finally
Complete(i, p) ==
  /\ messages' = Append(messages, AssistantTurn(p.result))
  /\ Finally
  /\ pipelines' = RemoveAt(pipelines, i)
  /\ lastRun' = Returned(p, "ok", "none", AssistantTurn(p.result))

\* catch (error): the fallback turn, then finally
Catch(i, p, cause) ==
  /\ messages' = Append(messages, FallbackTurn)
  /\ Finally
  /\ pipelines' = RemoveAt(pipelines, i)
  /\ lastRun' = Returned(p, "error", cause, FallbackTurn)

\* if (result.summary && result.learning)
CreatesEntry(result) == Truthy(result.summary) /\ Truthy(result.learning)

\* if (result.updatedPreferences) { if (key && value)
UpsertsPreference(result) ==
  /\ result.updatedPreferences.present
  /\ Truthy(result.updatedPreferences.key)
  /\ Truthy(result.updatedPreferences.value)

\* from the entry step to the next await or to the end
EntryStep(i, p) ==
  IF CreatesEntry(p.result)
  THEN /\ pipelines' =
            [pipelines EXCEPT ![i] = [p EXCEPT !.pc = "saveEntry", !.calledSaveEntry = TRUE]]
       /\ UNCHANGED <<messages, isLoading, lastRun>>
  ELSE Complete(i, p)

\* from the preference step to the next await or to the end
PreferenceStep(i, p) ==
  IF UpsertsPreference(p.result)
  THEN /\ pipelines' =
            [pipelines EXCEPT ![i] =
               [p EXCEPT !.pc = "savePreference", !.calledSavePreference = TRUE,
                         !.logIx = Len(prefLog) + 1]]
       /\ prefLog' =
            Append(prefLog,
              [key |-> p.result.updatedPreferences.key,
               value |-> p.result.updatedPreferences.value, applied |-> FALSE])
       /\ UNCHANGED <<messages, isLoading, lastRun>>
  ELSE EntryStep(i, p) /\ UNCHANGED prefLog

\* the backend answers and the text parses (or is empty)
GenerateResolve ==
  /\ \E i \in DOMAIN pipelines :
       /\ pipelines[i].pc = "generate"
       /\ \E resp \in GenResponses :
            /\ ~ParseThrows(resp)
            /\ PreferenceStep(i, [pipelines[i] EXCEPT !.result = ParseResponse(resp)])
  /\ UNCHANGED <<entries, preferences, input, loadData, store, clock, nRuns, nApiPosts>>

\* the backend answers with text that is not JSON: JSON.parse throws
GenerateMalformed ==
  /\ \E i \in DOMAIN pipelines :
       /\ pipelines[i].pc = "generate"
       /\ \E resp \in GenResponses : ParseThrows(resp) /\ Catch(i, pipelines[i], "parse")
  /\ UNCHANGED <<entries, preferences, input, loadData, store, clock, nRuns, nApiPosts,
                 prefLog>>

\* the generation call rejects
GenerateReject ==
  /\ \E i \in DOMAIN pipelines :
       pipelines[i].pc = "generate" /\ Catch(i, pipelines[i], "generate")
  /\ UNCHANGED <<entries, preferences, input, loadData, store, clock, nRuns, nApiPosts,
                 prefLog>>

\* POST /api/preferences handled by the server
ServerPostPreference ==
  /\ \E i \in DOMAIN pipelines :
       LET p == pipelines[i]
           up == p.result.updatedPreferences
       IN /\ p.pc = "savePreference"
          /\ dbPrefs' = UpsertPreference(dbPrefs, up.key, up.value)
          /\ prefLog' = [prefLog EXCEPT ![p.logIx].applied = TRUE]
          /\ pipelines' =
               [pipelines EXCEPT ![i] = [p EXCEPT !.pc = "savePreferenceDone", !.status = "ok"]]
  /\ UNCHANGED <<client, loadData, dbEntries, clock, nRuns, nApiPosts, lastRun>>

\* POST /api/preferences answered with an error status: nothing is written
ServerPostPreferenceError ==
  /\ \E i \in DOMAIN pipelines :
       /\ pipelines[i].pc = "savePreference"
       /\ pipelines' =
            [pipelines EXCEPT ![i] =
               [pipelines[i] EXCEPT !.pc = "savePreferenceDone", !.status = "error"]]
  /\ UNCHANGED <<client, loadData, store, clock, nRuns, nApiPosts, logs>>

\* savePreference resolves (it does not look at the status)
SavePreferenceResolve ==
  /\ \E i \in DOMAIN pipelines :
       LET p == pipelines[i]
           up == p.result.updatedPreferences
       IN /\ p.pc = "savePreferenceDone"
          /\ preferences' = SetKey(preferences, up.key, up.value)
          /\ EntryStep(i, p)
  /\ UNCHANGED <<entries, input, loadData, store, clock, nRuns, nApiPosts, prefLog>>

\* savePreference rejects: the request or its response is lost
SavePreferenceReject ==
  /\ \E i \in DOMAIN pipelines :
       /\ pipelines[i].pc \in {"savePreference", "savePreferenceDone"}
       /\ Catch(i, pipelines[i], "savePreference")
  /\ UNCHANGED <<entries, preferences, input, loadData, store, clock, nRuns, nApiPosts,
                 prefLog>>

\* a route that does not insert a row whose three fields are already stored
PostEntriesDeduplicated(rows, body, now) ==
  IF \E r \in Range(rows) :
       /\ r.content = body.content
       /\ r.summary = body.summary
       /\ r.learning = body.learning
  THEN rows
  ELSE InsertEntry(rows, body.content, body.summary, body.learning, now)

\* POST /api/entries: const { content, summary, learning } = req.body; INSERT
PostEntries(rows, body, now) ==
  InsertEntry(rows, body.content, body.summary, body.learning, now)

\* JSON.stringify(newEntry)
NewEntry(p) ==
  [content |-> p.userMessage, summary |-> p.result.summary, learning |-> p.result.learning]

\* POST /api/entries of the session handled by the server
ServerPostEntry ==
  /\ \E i \in DOMAIN pipelines :
       LET p == pipelines[i]
       IN /\ p.pc = "saveEntry"
          /\ ~InsertEntryFails(NewEntry(p).content)
          /\ dbEntries' = PostEntries(dbEntries, NewEntry(p), clock)
          /\ pipelines' =
               [pipelines EXCEPT ![i] =
                  [p EXCEPT !.pc = "saveEntryDone", !.status = "ok",
                            !.respId = Len(dbEntries) + 1]]
  /\ UNCHANGED <<client, loadData, dbPrefs, clock, nRuns, nApiPosts, logs>>

\* POST /api/entries answered with an error page: nothing is written
ServerPostEntryError ==
  /\ \E i \in DOMAIN pipelines :
       /\ pipelines[i].pc = "saveEntry"
       /\ pipelines' =
            [pipelines EXCEPT ![i] =
               [pipelines[i] EXCEPT !.pc = "saveEntryDone", !.status = "error"]]
  /\ UNCHANGED <<client, loadData, store, clock, nRuns, nApiPosts, logs>>

\* saveEntry resolves with { id }: the entry is prepended
SaveEntryResolve ==
  /\ \E i \in DOMAIN pipelines :
       LET p == pipelines[i]
           \* created_at is the client's new Date(), taken to be the store's time
           e == [id |-> p.respId, content |-> p.userMessage,
                 summary |-> p.result.summary, learning |-> p.result.learning,
                 created_at |-> clock]
       IN /\ p.pc = "saveEntryDone" /\ p.status = "ok"
          /\ entries' = <<e>> \o entries
          /\ Complete(i, p)
  /\ UNCHANGED <<preferences, input, loadData, store, clock, nRuns, nApiPosts, prefLog>>

\* saveEntry rejects: the request or its response is lost, or the body of an
\* error answer is not JSON
SaveEntryReject ==
  /\ \E i \in DOMAIN pipelines :
       /\ pipelines[i].pc \in {"saveEntry", "saveEntryDone"}
       /\ Catch(i, pipelines[i], "saveEntry")
  /\ UNCHANGED <<entries, preferences, input, loadData, store, clock, nRuns, nApiPosts,
                 prefLog>>

\* ------------------------------------------------- other clients of the API
ApiBodies ==
  [content : {JsNull, <<>>, <<"a">>}, summary : {<<>>, <<"S">>},
   learning : {JsNull, <<"L">>}]

\* POST /api/entries by another client
ApiPostEntries ==
  /\ nApiPosts < MaxApiPosts
  /\ nRuns + nApiPosts < MaxRuns
  /\ nApiPosts' = nApiPosts + 1
  /\ \E body \in ApiBodies :
       dbEntries' =
         IF InsertEntryFails(body.content) THEN dbEntries
         ELSE PostEntries(dbEntries, body, clock)
  /\ UNCHANGED <<client, pipelines, loadData, dbPrefs, clock, nRuns, logs>>

\* ------------------------------------------------------------ specifications
Session ==
  \/ SetInput
  \/ HandleSend
  \/ HandleSendRejected
  \/ GenerateResolve
  \/ GenerateMalformed
  \/ GenerateReject
  \/ ServerPostPreference
  \/ ServerPostPreferenceError
  \/ SavePreferenceResolve
  \/ SavePreferenceReject
  \/ ServerPostEntry
  \/ ServerPostEntryError
  \/ SaveEntryResolve
  \/ SaveEntryReject

Next ==
  \/ Tick
  \/ LoadGetEntries
  \/ LoadGetPreferences
  \/ LoadDataResolve
  \/ LoadDataReject
  \/ Session

Spec == Init /\ [][Next]_vars

NextApi == Next \/ ApiPostEntries

SpecApi == Init /\ [][NextApi]_vars


\* ------------------------------------------------------------------ claims
IsPrefix(a, b) == Len(a) <= Len(b) /\ SubSeq(b, 1, Len(a)) = a

\* the generation call of the run in the log returned an object
GenerationSucceeded(run) == run.n > 0 /\ run.cause \notin {"generate", "parse"}

\* C1: the assistant turn appended from a generation result carries an
\* attached record if and only if saveEntry was called in that run, that is
\* if and only if both summary and learning were non-empty.
C1_AttachedIffEntrySaved ==
  lastRun.outcome = "ok" =>
    /\ (lastRun.turn.data.kind = "record") <=> lastRun.calledSaveEntry
    /\ lastRun.calledSaveEntry <=>
         (Truthy(lastRun.result.summary) /\ Truthy(lastRun.result.learning))

\* C2: a generation result whose chatResponse is absent or empty yields the
\* fixed fallback turn, no entry creation and no preference upsert.
C2_EmptyChatResponseFallsBack ==
  (GenerationSucceeded(lastRun) /\ ~Truthy(lastRun.result.chatResponse)) =>
    /\ lastRun.turn = FallbackTurn
    /\ ~lastRun.calledSaveEntry
    /\ ~lastRun.calledSavePreference

\* C3: when the generation call succeeded with a non-empty chatResponse and a
\* store write of the run rejected, the remaining steps were still attempted
\* and the appended assistant turn has that chatResponse as its content.
C3_StoreFailureKeepsChatResponse ==
  (lastRun.cause \in {"savePreference", "saveEntry"}
     /\ Truthy(lastRun.result.chatResponse)) =>
    /\ lastRun.turn.content = lastRun.result.chatResponse
    /\ (Truthy(lastRun.result.summary) /\ Truthy(lastRun.result.learning))
         => lastRun.calledSaveEntry

\* C4: at most one handleSend pipeline is in flight, and while one is in
\* flight no submission is accepted, whatever the textarea holds.
C4_AtMostOneInFlight ==
  /\ Len(pipelines) <= 1
  /\ pipelines # <<>> => \A text \in InputTexts : ~HandleSendAccepts(text, isLoading)

\* C4 witness: a pipeline is in flight and the textarea holds a new message
\* that is not blank, so a submission is attempted and refused.
C4_Witness == Len(pipelines) = 1 /\ Trim(input) # <<>> /\ ~HandleSendAccepts(input, isLoading)

\* C5: the turn sequence is append-only: every step leaves the previous
\* sequence as a prefix of the new one.
C5_TurnsAppendOnly == [][IsPrefix(messages, messages')]_vars

\* C6: once the store has created the entry of a run whose result had both
\* summary and learning, the entry holds the user message, that summary and
\* that learning, and every listEntries() returns it first.
C6_NewEntryListedFirst ==
  \A i \in DOMAIN pipelines :
    LET p == pipelines[i]
    IN (p.pc = "saveEntryDone" /\ p.status = "ok") =>
         /\ Cardinality({j \in DOMAIN dbEntries : dbEntries[j].id = p.respId}) = 1
         /\ \A list \in ListEntries(dbEntries) :
              /\ list[1].id = p.respId
              /\ list[1].content = p.userMessage
              /\ list[1].summary = p.result.summary
              /\ list[1].learning = p.result.learning

\* the last pair of the log with this key, among those that satisfy Counts
LatestIx(key, Counts(_)) ==
  CHOOSE j \in DOMAIN prefLog :
    /\ prefLog[j].key = key /\ Counts(prefLog[j])
    /\ \A h \in DOMAIN prefLog :
         (prefLog[h].key = key /\ Counts(prefLog[h])) => h <= j

OneValuePerKey == \A r1, r2 \in dbPrefs : r1.key = r2.key => r1 = r2

Reported(pair) == TRUE
Applied(pair) == pair.applied

\* listPreferences() returns, for the key of every pair that counts, the
\* value of the latest pair with that key that counts
LastWriteWins(Counts(_)) ==
  \A j \in DOMAIN prefLog :
    Counts(prefLog[j]) =>
      /\ prefLog[j].key \in DOMAIN ListPreferences(dbPrefs)
      /\ ListPreferences(dbPrefs)[prefLog[j].key]
           = prefLog[LatestIx(prefLog[j].key, Counts)].value

\* C7 as stated: after any sequence of runs, listPreferences() returns for
\* the key of every pair reported by a generation result the value of the
\* latest reported pair with that key, and the store has one value per key.
C7_ReportedLastWriteWins ==
  pipelines = <<>> => (LastWriteWins(Reported) /\ OneValuePerKey)

\* C7 amended: listPreferences() returns for the key of every reported pair
\* whose upsert the store handled the value of the latest such pair with
\* that key, and the store has one value per key.
C7_AppliedLastWriteWins == LastWriteWins(Applied) /\ OneValuePerKey

\* C7 witness: the store handled two pairs with the same key and different
\* values, and no run is in flight.
C7_Witness ==
  /\ pipelines = <<>>
  /\ \E j, h \in DOMAIN prefLog :
       /\ j < h /\ prefLog[j].applied /\ prefLog[h].applied
       /\ prefLog[j].key = prefLog[h].key /\ prefLog[j].value # prefLog[h].value

\* C8: every persisted entry has non-empty content, summary and learning.
C8_NoEmptyFieldPersisted ==
  \A j \in DOMAIN dbEntries :
    /\ Truthy(dbEntries[j].content)
    /\ Truthy(dbEntries[j].summary)
    /\ Truthy(dbEntries[j].learning)

RECURSIVE MostRecentFirst(_)
\* the entries of a set, latest created (largest id) first
MostRecentFirst(S) ==
  IF S = {} THEN <<>>
  ELSE LET x == CHOOSE e \in S : \A y \in S : e.id >= y.id
       IN <<x>> \o MostRecentFirst({y \in S : y.id # x.id})

\* C9: the history handed to the generation call is the text of the
\* min(3, n) most recently created of the n entries the session knows, most
\* recent first; with no entry it is the empty text.
C9_HistoryIsThreeMostRecent ==
  \A i \in DOMAIN pipelines :
    LET history == pipelines[i].callHistory
    IN /\ HistoryString(history) = HistoryString(MostRecentFirst(Range(history)))
       /\ history = <<>> => HistoryString(history) = <<>>

\* C10: the step in which a run fails appends exactly the fallback turn and
\* clears the guard, so that the next submission that is not blank is
\* accepted.
C10_FailedRunRecovers ==
  [][(lastRun'.n # lastRun.n /\ lastRun'.outcome = "error") =>
       /\ messages' = Append(messages, FallbackTurn)
       /\ ~isLoading'
       /\ \A text \in InputTexts : Trim(text) # <<>> => HandleSendAccepts(text, isLoading')]_vars

\* C10 witness: the run before failed and the next submission runs the pipeline.
C10_Witness ==
  /\ lastRun.outcome = "error"
  /\ Len(pipelines) = 1
  /\ pipelines[1].n = lastRun.n + 1


\* the step returns a run with the user message and the generation result of
\* the run before it, the result has summary, learning and a preference
\* pair, and the store handled every write of both runs
SecondOfTwoEqualRuns ==
  /\ lastRun.n >= 1 /\ lastRun'.n = lastRun.n + 1
  /\ lastRun.outcome = "ok" /\ lastRun'.outcome = "ok"
  /\ lastRun'.userMessage = lastRun.userMessage
  /\ lastRun'.result = lastRun.result
  /\ CreatesEntry(lastRun.result) /\ UpsertsPreference(lastRun.result)
  /\ Len(prefLog') >= 2
  /\ prefLog'[Len(prefLog') - 1].applied /\ prefLog'[Len(prefLog')].applied

\* the row of the run is stored under the id the run was given
StoredAs(rows, run) ==
  \E r \in Range(rows) :
    /\ r.id = run.respId
    /\ r.content = run.userMessage
    /\ r.summary = run.result.summary
    /\ r.learning = run.result.learning

\* the step in which the store handles an upsert of the pair it handled last
RepeatedUpsert ==
  \E j \in DOMAIN prefLog :
    /\ j > 1
    /\ ~prefLog[j].applied /\ prefLog'[j].applied
    /\ prefLog[j - 1] = [prefLog[j] EXCEPT !.applied = TRUE]

\* C11: two runs with the same user message and the same generation result
\* (summary, learning and a preference pair) leave two entries with distinct
\* ids and the same content, summary and learning, and one value for the
\* key; the second upsert leaves the preference store as the first left it.
C11_TwoEntriesOnePreference ==
  [][/\ SecondOfTwoEqualRuns =>
          /\ lastRun.respId # lastRun'.respId
          /\ StoredAs(dbEntries', lastRun)
          /\ StoredAs(dbEntries', lastRun')
          /\ {r \in dbPrefs' : r.key = lastRun.result.updatedPreferences.key}
               = {[key |-> lastRun.result.updatedPreferences.key,
                   value |-> lastRun.result.updatedPreferences.value]}
     /\ RepeatedUpsert => dbPrefs' = dbPrefs]_vars

\* C11 witness: the second of two runs with the same result has returned,
\* both assistant turns are in the conversation and both pairs were handled.
C11_Witness ==
  /\ lastRun.n = 2 /\ lastRun.outcome = "ok"
  /\ CreatesEntry(lastRun.result) /\ UpsertsPreference(lastRun.result)
  /\ Cardinality({j \in DOMAIN messages : messages[j] = AssistantTurn(lastRun.result)}) = 2
  /\ Len(prefLog) = 2 /\ prefLog[1] = prefLog[2] /\ prefLog[2].applied
  /\ Cardinality({j \in DOMAIN dbEntries : dbEntries[j].summary = lastRun.result.summary}) = 2


Ids(list) == [j \in DOMAIN list |-> list[j].id]

\* neither loadData nor a handleSend run is in flight, and loadData has set
\* the snapshots
Quiescent == loadData.pc = "done" /\ pipelines = <<>>

\* C12: whenever neither loadData nor a handleSend run is in flight, the
\* in-memory preference mapping equals listPreferences() and the in-memory
\* entry list holds the ids of listEntries() in the same order.
C12_SnapshotsAgreeWithStore ==
  Quiescent =>
    /\ preferences = ListPreferences(dbPrefs)
    /\ \E list \in ListEntries(dbEntries) : Ids(entries) = Ids(list)

====
